---- MODULE Spec2Model ----
(***************************************************************************)
(* Model of src/sw.js, the service worker of the e-book reader: the        *)
(* install / activate / message / fetch listeners, the three fetch         *)
(* strategies and the periodic sweep of the dynamic cache.                 *)
(*                                                                         *)
(* URLs are strings; includes/endsWith are computed character by           *)
(* character.  The cache storage is a sequence of named caches in creation *)
(* order (the order caches.match searches), each cache a sequence of       *)
(* entries in insertion order (the order cache.keys returns).              *)
(***************************************************************************)
EXTENDS Integers, Sequences, FiniteSets, TLC

(* ----------------------------- bounds --------------------------------- *)
\* number of fetch events the worker receives in one run
MaxRequests == 1
\* entries above the sweep threshold in the dynamic cache found at start
MaxExcess == 1

(* ------------------------ constants of sw.js --------------------------- *)
STATIC_CACHE == "reader-static-v1.0.0"
DYNAMIC_CACHE == "reader-dynamic-v1.0.0"
\* the threshold of cleanupExpiredCache
MAX_ENTRIES == 100

STATIC_ASSETS ==
  << "./",
     "./index.html",
     "./manifest.json",
     "https://cdn.jsdelivr.net/npm/jszip@3.10.1/dist/jszip.min.js",
     "https://cdn.jsdelivr.net/npm/epubjs@0.3/dist/epub.min.js",
     "https://cdn.jsdelivr.net/npm/marked@12.0.2/marked.min.js" >>

(* ------------------------- string helpers ------------------------------ *)
\* String.prototype.includes
Includes(s, t) ==
  \E i \in 1..(Len(s) - Len(t) + 1) : SubSeq(s, i, i + Len(t) - 1) = t

\* String.prototype.endsWith
EndsWith(s, t) ==
  /\ Len(s) >= Len(t)
  /\ SubSeq(s, Len(s) - Len(t) + 1, Len(s)) = t

\* String.prototype.startsWith
StartsWith(s, t) ==
  /\ Len(s) >= Len(t)
  /\ SubSeq(s, 1, Len(t)) = t

\* index of the first occurrence of t in s at or after position from, 0 if none
IndexFrom(s, t, from) ==
  LET hits == { i \in from..(Len(s) - Len(t) + 1) : SubSeq(s, i, i + Len(t) - 1) = t }
  IN  IF hits = {} THEN 0 ELSE CHOOSE i \in hits : \A j \in hits : i <= j

\* new URL(u).protocol: the scheme with its colon
Protocol(u) ==
  LET c == IndexFrom(u, ":", 1)
  IN  IF c = 0 THEN "" ELSE SubSeq(u, 1, c)

\* new URL(u).hostname: what follows "//" up to the next "/", ":" or "?"
Hostname(u) ==
  LET p == IndexFrom(u, "//", 1)
      start == p + 2
      stops == { i \in start..Len(u) : SubSeq(u, i, i) \in {"/", ":", "?", "#"} }
      stop == IF stops = {} THEN Len(u) + 1 ELSE CHOOSE i \in stops : \A j \in stops : i <= j
  IN  IF p = 0 THEN "" ELSE SubSeq(u, start, stop - 1)

(* --------------------------- classification ---------------------------- *)
isStaticAsset(url) ==
  \/ \E a \in DOMAIN STATIC_ASSETS : Includes(url, STATIC_ASSETS[a])
  \/ Includes(url, "cdn.jsdelivr.net")
  \/ EndsWith(url, ".js")
  \/ EndsWith(url, ".css")
  \/ EndsWith(url, ".json")

isEpubFile(url) == EndsWith(url, ".epub") \/ Includes(url, ".epub")

\* as Dispatch, without the early return for methods other than GET
DispatchAnyMethod(method, url) ==
  IF Protocol(url) = "chrome-extension:"
     \/ Hostname(url) = "chrome-devtools-frontend.appspot.com" THEN "passthrough"
  ELSE IF isStaticAsset(url) THEN "static"
  ELSE IF isEpubFile(url) THEN "document"
  ELSE "other"

\* the branch of the fetch listener a request takes
Dispatch(method, url) ==
  IF method # "GET" THEN "passthrough"
  ELSE IF Protocol(url) = "chrome-extension:"
          \/ Hostname(url) = "chrome-devtools-frontend.appspot.com" THEN "passthrough"
  ELSE IF isStaticAsset(url) THEN "static"
  ELSE IF isEpubFile(url) THEN "document"
  ELSE "other"

(* ------------------------------ URLs ----------------------------------- *)
\* the URL the worker script is served from; relative assets resolve against it
BaseUrl == "https://r.io/"

\* Request URL resolution of one STATIC_ASSETS entry (cache.addAll keys)
Resolve(asset) ==
  IF StartsWith(asset, "./") THEN BaseUrl \o SubSeq(asset, 3, Len(asset)) ELSE asset

PageUrl(i) == BaseUrl \o "p/" \o ToString(i)

ScriptUrl == BaseUrl \o "app.js"
BookUrl == BaseUrl \o "b.epub"
CdnBookUrl == "https://cdn.jsdelivr.net/b.epub"
ExtensionUrl == "chrome-extension://x/a.js"
DevtoolsUrl == "https://chrome-devtools-frontend.appspot.com/a"

\* the requests the page can issue: <<method, url>>
RequestInputs ==
  { <<"GET", ScriptUrl>>, <<"GET", BookUrl>>, <<"GET", PageUrl(1)>>,
    <<"GET", ExtensionUrl>>, <<"POST", BookUrl>>,
    <<"GET", DevtoolsUrl>>, <<"GET", CdnBookUrl>> }

\* the branch each of these requests takes
Classified == [in \in RequestInputs |-> Dispatch(in[1], in[2])]

(* --------------------------- responses --------------------------------- *)
\* body names the network response the bytes came from: the fetch event that
\* obtained it (0: synthetic, or stored before this run)
NoResponse == [type |-> "none", status |-> 0, body |-> 0]
NetworkResponse(st, n) == [type |-> "network", status |-> st, body |-> n]
CachedResponse(e) == [type |-> "cached", status |-> e.status, body |-> e.body]
Synthetic503 == [type |-> "synthetic", status |-> 503, body |-> 0]
Synthetic404 == [type |-> "synthetic", status |-> 404, body |-> 0]
\* new Response(html, {headers}) without a status: 200
OfflinePage == [type |-> "offline", status |-> 200, body |-> 0]

\* Response.ok
Ok(resp) == resp.status >= 200 /\ resp.status <= 299

(* ------------------------- cache storage ------------------------------- *)
Entry(k, st, b) == [key |-> k, status |-> st, body |-> b]
NoEntry == [key |-> "", status |-> 0, body |-> 0]

CacheNames(cs) == { cs[i].name : i \in DOMAIN cs }
HasCache(cs, n) == n \in CacheNames(cs)
CacheIndex(cs, n) == CHOOSE i \in DOMAIN cs : cs[i].name = n
EntriesOf(cs, n) == IF HasCache(cs, n) THEN cs[CacheIndex(cs, n)].entries ELSE << >>
KeysOf(es) == [i \in DOMAIN es |-> es[i].key]
KeySet(es) == { es[i].key : i \in DOMAIN es }
WithoutKey(es, k) == SelectSeq(es, LAMBDA e : e.key # k)

\* caches.open(n): creates the cache at the end of the list when absent
OpenCache(cs, n) ==
  IF HasCache(cs, n) THEN cs ELSE Append(cs, [name |-> n, entries |-> << >>])

\* caches.delete(n)
DeleteCache(cs, n) == SelectSeq(cs, LAMBDA c : c.name # n)

\* cache.put(request, response): replaces the entry of the key, appends the new one
PutEntry(cs, n, e) ==
  IF HasCache(cs, n)
  THEN [cs EXCEPT ![CacheIndex(cs, n)].entries = Append(WithoutKey(@, e.key), e)]
  ELSE cs

\* cache.delete(request)
DeleteEntry(cs, n, k) ==
  IF HasCache(cs, n)
  THEN [cs EXCEPT ![CacheIndex(cs, n)].entries = WithoutKey(@, k)]
  ELSE cs

\* caches.match(request): the first cache, in creation order, holding the key
GlobalMatch(cs, k) ==
  LET holders == { i \in DOMAIN cs : k \in KeySet(cs[i].entries) }
  IN  IF holders = {} THEN NoEntry
      ELSE LET c == CHOOSE i \in holders : \A j \in holders : i <= j
               es == cs[c].entries
           IN  es[CHOOSE i \in DOMAIN es : es[i].key = k]

\* cache.addAll(STATIC_ASSETS): one entry per resolved asset, in list order
AddAll(cs, n) ==
  [cs EXCEPT ![CacheIndex(cs, n)].entries =
     LET keys == [i \in DOMAIN STATIC_ASSETS |-> Resolve(STATIC_ASSETS[i])]
         kept == SelectSeq(@, LAMBDA e : \A i \in DOMAIN keys : keys[i] # e.key)
     IN  kept \o [i \in DOMAIN keys |-> Entry(keys[i], 200, 0)]]

\* as StaleNames, with || for && in the test of line 43
StaleNamesEitherTag(names) == { n \in names : n # STATIC_CACHE \/ n # DYNAMIC_CACHE }

\* the partitions activation deletes
StaleNames(names) == { n \in names : n # STATIC_CACHE /\ n # DYNAMIC_CACHE }

(* ------------------- storage found at worker start --------------------- *)
OldStatic == "reader-static-v0.9.0"
Leftover == "leftover"

FreshStorage == << >>

\* left by earlier versions: stale caches, and caches of the current names
\* (a redeployment that kept the version tags) with a dynamic cache over the
\* threshold: pages 1, 2, ... in insertion order, then the book
UpgradeStorage ==
  << [name |-> OldStatic, entries |-> << Entry(ScriptUrl, 200, 0) >>],
     [name |-> STATIC_CACHE, entries |-> << Entry(ScriptUrl, 200, 0) >>],
     [name |-> Leftover, entries |-> << >>],
     [name |-> DYNAMIC_CACHE,
      entries |-> [i \in 1..(MAX_ENTRIES + MaxExcess) |->
                     IF i < MAX_ENTRIES + MaxExcess THEN Entry(PageUrl(i), 200, 0)
                                                   ELSE Entry(BookUrl, 200, 0)]] >>

InitialStorages == { FreshStorage, UpgradeStorage }

(* ------------------------------ state ---------------------------------- *)
VARIABLES
  caches,          \* the cache storage: caches in creation order
  lifecycle,       \* "installing", "installed" (waiting), "activating", "activated", "redundant"
  installPc,       \* position in the install promise chain
  installFailed,   \* caches.open or cache.addAll rejected during install
  installResult,   \* the promise given to waitUntil by the install listener
  skipWaitingFlag, \* self.skipWaiting() was called and the runtime has yet to act on it
  oldWorker,       \* an older worker still controls open clients
  lastMsg,         \* type of the last message the waiting worker received ("": none yet)
  actPc,           \* position in the activate promise chain
  actPending,      \* caches.delete calls of activation still in flight
  actResult,       \* the promise given to waitUntil by the activate listener
  actStart,        \* cache names present when the activate event was dispatched
  claimed,         \* self.clients.claim() was called
  req,             \* the fetch events in flight: one record per event
  sweepPc,         \* position in cleanupExpiredCache ("idle": not running)
  sweepKeys,       \* the key list the last sweep read, when it was over the threshold
  sweepSeen,       \* the entries the dynamic cache held when that key list was read
  sweepPending,    \* cache.delete calls of the sweep still in flight
  sweepFailed,     \* a cache.delete of the last sweep rejected
  sweepTouched     \* a put reached the dynamic cache after the last sweep read its keys

lifeVars == << lifecycle, installPc, installFailed, installResult, skipWaitingFlag, oldWorker,
              lastMsg >>
actVars == << actPc, actPending, actResult, actStart, claimed >>
reqVars == << req >>
sweepVars == << sweepPc, sweepKeys, sweepSeen, sweepPending, sweepFailed, sweepTouched >>
vars == << caches, lifeVars, actVars, reqVars, sweepVars >>

Requests == 1..MaxRequests
NetOutcomes == { "ok", "error", "reject" }
\* status of the network response: 2xx, or a non-2xx status
NetStatus(outcome) == IF outcome = "ok" THEN 200 ELSE 500

IdleRequest ==
  [ pc |-> "idle", method |-> "", url |-> "", class |-> "",
    resp |-> NoResponse, net |-> NoResponse, calls |-> 0, lookups |-> 0,
    found |-> "none", fail |-> "none", write |-> "none", cachedAtStart |-> FALSE ]

EndedRequest == [IdleRequest EXCEPT !.pc = "ended"]
\* an ended event whose cache.put was cut off when the worker was terminated
LostRequest == [EndedRequest EXCEPT !.write = "lost"]

Init ==
  /\ caches \in InitialStorages
  /\ oldWorker = (caches = UpgradeStorage)
  /\ lifecycle = "installing"
  /\ installPc = "open"
  /\ installFailed = FALSE
  /\ installResult = "pending"
  /\ skipWaitingFlag = FALSE
  /\ lastMsg = ""
  /\ actPc = "idle"
  /\ actPending = {}
  /\ actResult = "pending"
  /\ actStart = {}
  /\ claimed = FALSE
  /\ req = [r \in Requests |-> IdleRequest]
  /\ sweepPc = "idle"
  /\ sweepKeys = << >>
  /\ sweepSeen = << >>
  /\ sweepPending = {}
  /\ sweepFailed = FALSE
  /\ sweepTouched = FALSE

(* ------------------------------ install -------------------------------- *)
\* what the install promise chain settles to after its .catch handler ran
InstallCatch == "resolved"

\* the host runtime's reaction to the settled install promise
AfterInstall(result) == IF result = "rejected" THEN "redundant" ELSE "installed"

\* caches.open(STATIC_CACHE)
InstallOpen(ok) ==
  /\ lifecycle = "installing" /\ installPc = "open"
  /\ IF ok
     THEN /\ caches' = OpenCache(caches, STATIC_CACHE)
          /\ installPc' = "addAll"
          /\ UNCHANGED << lifecycle, installFailed, installResult >>
     ELSE /\ installFailed' = TRUE
          /\ installResult' = InstallCatch
          /\ lifecycle' = AfterInstall(installResult')
          /\ installPc' = "settled"
          /\ UNCHANGED caches
  /\ UNCHANGED << skipWaitingFlag, oldWorker, actVars, reqVars, sweepVars, lastMsg >>

\* cache.addAll(STATIC_ASSETS): all entries are stored, or none
InstallAddAll(ok) ==
  /\ lifecycle = "installing" /\ installPc = "addAll"
  /\ IF ok
     THEN /\ caches' = AddAll(caches, STATIC_CACHE)
          /\ installPc' = "skipWaiting"
          /\ UNCHANGED << lifecycle, installFailed, installResult >>
     ELSE /\ installFailed' = TRUE
          /\ installResult' = InstallCatch
          /\ lifecycle' = AfterInstall(installResult')
          /\ installPc' = "settled"
          /\ UNCHANGED caches
  /\ UNCHANGED << skipWaitingFlag, oldWorker, actVars, reqVars, sweepVars, lastMsg >>

\* return self.skipWaiting(), after which the chain resolves
InstallSkipWaiting ==
  /\ lifecycle = "installing" /\ installPc = "skipWaiting"
  /\ skipWaitingFlag' = TRUE
  /\ installResult' = "resolved"
  /\ lifecycle' = AfterInstall(installResult')
  /\ installPc' = "settled"
  /\ UNCHANGED << caches, installFailed, oldWorker, actVars, reqVars, sweepVars, lastMsg >>

(* ------------------------- message, runtime ---------------------------- *)
MessageTypes == { "SKIP_WAITING", "PING", "none" }

\* as Message, calling skipWaiting for every message that carries data
MessageAnyType(type) ==
  /\ lifecycle = "installed"
  /\ lastMsg' = type
  /\ skipWaitingFlag' = (skipWaitingFlag \/ type # "none")
  /\ UNCHANGED << caches, lifecycle, installPc, installFailed, installResult, oldWorker,
                  actVars, reqVars, sweepVars >>

\* the message listener, for a message posted to the waiting worker; "none" is
\* a message without data
Message(type) ==
  /\ lifecycle = "installed"
  /\ lastMsg' = type
  /\ skipWaitingFlag' = (skipWaitingFlag \/ type = "SKIP_WAITING")
  /\ UNCHANGED << caches, lifecycle, installPc, installFailed, installResult, oldWorker,
                  actVars, reqVars, sweepVars >>

\* the last client of the older worker goes away
ClientsClose ==
  /\ oldWorker
  /\ lifecycle = "installed"
  /\ oldWorker' = FALSE
  /\ UNCHANGED << caches, lifecycle, installPc, installFailed, installResult, skipWaitingFlag,
                  actVars, reqVars, sweepVars, lastMsg >>

(* ------------------------------ activate ------------------------------- *)
\* the runtime dispatches activate to a waiting worker
ActivateEvent ==
  /\ lifecycle = "installed"
  /\ skipWaitingFlag \/ ~oldWorker
  /\ lifecycle' = "activating"
  /\ oldWorker' = FALSE
  /\ skipWaitingFlag' = FALSE
  /\ lastMsg' = ""
  /\ actPc' = "keys"
  /\ actStart' = CacheNames(caches)
  /\ UNCHANGED << caches, installPc, installFailed, installResult,
                  actPending, actResult, claimed, reqVars, sweepVars >>

\* as ActivateKeys, with clients.claim() not chained behind Promise.all
ActivateKeysClaimAtOnce(ok) ==
  /\ lifecycle = "activating" /\ actPc = "keys"
  /\ IF ok
     THEN /\ actPending' = StaleNames(CacheNames(caches))
          /\ actPc' = "claim"
          /\ UNCHANGED << lifecycle, actResult >>
     ELSE /\ actResult' = "rejected"
          /\ actPc' = "done"
          /\ lifecycle' = "activated"
          /\ UNCHANGED actPending
  /\ UNCHANGED << caches, installPc, installFailed, installResult, skipWaitingFlag, oldWorker,
                  actStart, claimed, reqVars, sweepVars, lastMsg >>

\* caches.keys(), then one caches.delete per stale name, all started at once
ActivateKeys(ok) ==
  /\ lifecycle = "activating" /\ actPc = "keys"
  /\ IF ok
     THEN /\ actPending' = StaleNames(CacheNames(caches))
          /\ actPc' = IF actPending' = {} THEN "claim" ELSE "deleting"
          /\ UNCHANGED << lifecycle, actResult >>
     ELSE /\ actResult' = "rejected"
          /\ actPc' = "done"
          /\ lifecycle' = "activated"
          /\ UNCHANGED actPending
  /\ UNCHANGED << caches, installPc, installFailed, installResult, skipWaitingFlag, oldWorker,
                  actStart, claimed, reqVars, sweepVars, lastMsg >>

\* one caches.delete settles; the first rejection rejects Promise.all at once
ActivateDelete(n, ok) ==
  /\ n \in actPending
  /\ actPending' = actPending \ {n}
  /\ caches' = IF ok THEN DeleteCache(caches, n) ELSE caches
  /\ IF actPc = "deleting" /\ ~ok
     THEN /\ actResult' = "rejected"
          /\ actPc' = "done"
          /\ lifecycle' = "activated"
     ELSE /\ actPc' = IF actPc = "deleting" /\ actPending' = {} THEN "claim" ELSE actPc
          /\ UNCHANGED << lifecycle, actResult >>
  /\ UNCHANGED << installPc, installFailed, installResult, skipWaitingFlag, oldWorker,
                  actStart, claimed, reqVars, sweepVars, lastMsg >>

\* return self.clients.claim(), after which the chain resolves
ActivateClaim ==
  /\ lifecycle = "activating" /\ actPc = "claim"
  /\ claimed' = TRUE
  /\ actResult' = "resolved"
  /\ actPc' = "done"
  /\ lifecycle' = "activated"
  /\ UNCHANGED << caches, installPc, installFailed, installResult, skipWaitingFlag, oldWorker,
                  actPending, actStart, reqVars, sweepVars, lastMsg >>

(* ---------------------------- fetch listener ---------------------------- *)
\* the cache a handler of this class writes into
TargetCache(class) == IF class = "static" THEN STATIC_CACHE ELSE DYNAMIC_CACHE

\* the handler of event q has returned and its cache.put is in flight, or the
\* event is over
Returned(q) == req[q].write = "pending" \/ req[q].pc = "ended"

\* the fetch listener up to its first await: pass through, or respondWith(handler).
\* Events are taken in slot order, each once the handlers before it have
\* returned: before its return a handler changes no cache entry, so running
\* it side by side with another handler gives no outcome that running them
\* in one of the two orders does not give.
FetchEvent(r, in) ==
  /\ lifecycle = "activated"
  /\ req[r].pc = "idle"
  /\ \A q \in Requests : q < r => Returned(q)
  /\ LET class == Classified[in]
     IN  req' = [req EXCEPT ![r] =
                   [@ EXCEPT !.method = in[1], !.url = in[2], !.class = class,
                             !.pc = CASE class = "passthrough" -> "passthrough"
                                      [] class = "static" -> "match"
                                      [] OTHER -> "fetch",
                             !.cachedAtStart =
                                in[2] \in KeySet(EntriesOf(caches, STATIC_CACHE))]]
  /\ UNCHANGED << caches, lifeVars, actVars, sweepVars >>

\* the handler returns resp: the promise given to respondWith resolves
Return(q, r, resp) == [q EXCEPT ![r].pc = "done", ![r].resp = resp]

(* handleStaticAsset: cache first *)
\* as StaticMatch, without the early return of the cached response
StaticMatchIgnoresHit(r, ok) ==
  /\ req[r].class = "static" /\ req[r].pc = "match"
  /\ LET e == GlobalMatch(caches, req[r].url)
         q == [req EXCEPT ![r].lookups = @ + 1,
                          ![r].found = IF e = NoEntry THEN "miss" ELSE "hit",
                          ![r].fail = IF ok THEN @ ELSE "match"]
     IN  req' = IF ~ok THEN Return(q, r, Synthetic503)
                ELSE [q EXCEPT ![r].pc = "fetch"]
  /\ UNCHANGED << caches, lifeVars, actVars, sweepVars >>

\* line 113-116: await caches.match(request)
StaticMatch(r, ok) ==
  /\ req[r].class = "static" /\ req[r].pc = "match"
  /\ LET e == GlobalMatch(caches, req[r].url)
         q == [req EXCEPT ![r].lookups = @ + 1,
                          ![r].found = IF e = NoEntry THEN "miss" ELSE "hit",
                          ![r].fail = IF ok THEN @ ELSE "match"]
     IN  req' = IF ~ok THEN Return(q, r, Synthetic503)
                ELSE IF e # NoEntry THEN Return(q, r, CachedResponse(e))
                ELSE [q EXCEPT ![r].pc = "fetch"]
  /\ UNCHANGED << caches, lifeVars, actVars, sweepVars >>

\* line 118-119, 123: await fetch(request)
StaticFetch(r, outcome) ==
  /\ req[r].class = "static" /\ req[r].pc = "fetch"
  /\ LET net == NetworkResponse(NetStatus(outcome), r)
         q == [req EXCEPT ![r].calls = @ + 1]
     IN  req' = IF outcome = "reject" THEN Return(q, r, Synthetic503)
                ELSE IF Ok(net) THEN [q EXCEPT ![r].pc = "open", ![r].net = net]
                ELSE Return([q EXCEPT ![r].net = net], r, net)
  /\ UNCHANGED << caches, lifeVars, actVars, sweepVars >>

\* line 120-123: await caches.open(STATIC_CACHE); cache.put(...) is started, not awaited
StaticOpen(r, ok) ==
  /\ req[r].class = "static" /\ req[r].pc = "open"
  /\ IF ok
     THEN /\ caches' = OpenCache(caches, STATIC_CACHE)
          /\ req' = Return([req EXCEPT ![r].write = "pending"], r, req[r].net)
     ELSE /\ req' = Return([req EXCEPT ![r].fail = "open"], r, Synthetic503)
          /\ UNCHANGED caches
  /\ UNCHANGED << lifeVars, actVars, sweepVars >>

handleStaticAsset(r) ==
  \/ \E ok \in BOOLEAN : StaticMatch(r, ok)
  \/ \E outcome \in NetOutcomes : StaticFetch(r, outcome)
  \/ \E ok \in BOOLEAN : StaticOpen(r, ok)

(* the two network-first handlers differ in the response of last resort *)
\* as NetworkFirstFetch, without the networkResponse.ok test before the write
NetworkFirstFetchNoOkTest(r, outcome) ==
  /\ req[r].pc = "fetch"
  /\ LET net == NetworkResponse(NetStatus(outcome), r)
         q == [req EXCEPT ![r].calls = @ + 1]
     IN  req' = IF outcome = "reject" THEN [q EXCEPT ![r].pc = "match"]
                ELSE [q EXCEPT ![r].pc = "open", ![r].net = net]
  /\ UNCHANGED << caches, lifeVars, actVars, sweepVars >>

\* await fetch(request) inside the try block
NetworkFirstFetch(r, outcome) ==
  /\ req[r].pc = "fetch"
  /\ LET net == NetworkResponse(NetStatus(outcome), r)
         q == [req EXCEPT ![r].calls = @ + 1]
     IN  req' = IF outcome = "reject" THEN [q EXCEPT ![r].pc = "match"]
                ELSE IF Ok(net) THEN [q EXCEPT ![r].pc = "open", ![r].net = net]
                ELSE [q EXCEPT ![r].pc = "match", ![r].net = net]
  /\ UNCHANGED << caches, lifeVars, actVars, sweepVars >>

\* await caches.open(DYNAMIC_CACHE) inside the try block; cache.put(...) is
\* started, not awaited; a rejection is caught and falls to the cache lookup
NetworkFirstOpen(r, ok) ==
  /\ req[r].pc = "open"
  /\ IF ok
     THEN /\ caches' = OpenCache(caches, DYNAMIC_CACHE)
          /\ req' = Return([req EXCEPT ![r].write = "pending"], r, req[r].net)
     ELSE /\ req' = [req EXCEPT ![r].fail = "open", ![r].pc = "match"]
          /\ UNCHANGED caches
  /\ UNCHANGED << lifeVars, actVars, sweepVars >>

\* await caches.match(request) after the try block: a rejection rejects the handler
NetworkFirstMatch(r, ok, lastResort) ==
  /\ req[r].pc = "match"
  /\ LET e == GlobalMatch(caches, req[r].url)
         q == [req EXCEPT ![r].lookups = @ + 1,
                          ![r].found = IF e = NoEntry THEN "miss" ELSE "hit",
                          ![r].fail = IF ok THEN @ ELSE "match"]
     IN  req' = IF ~ok THEN [q EXCEPT ![r].pc = "rejected"]
                ELSE IF e # NoEntry THEN Return(q, r, CachedResponse(e))
                ELSE Return(q, r, lastResort)
  /\ UNCHANGED << caches, lifeVars, actVars, sweepVars >>

handleEpubFile(r) ==
  /\ req[r].class = "document"
  /\ \/ \E outcome \in NetOutcomes : NetworkFirstFetch(r, outcome)
     \/ \E ok \in BOOLEAN : NetworkFirstOpen(r, ok)
     \/ \E ok \in BOOLEAN : NetworkFirstMatch(r, ok, Synthetic404)

handleDynamicRequest(r) ==
  /\ req[r].class = "other"
  /\ \/ \E outcome \in NetOutcomes : NetworkFirstFetch(r, outcome)
     \/ \E ok \in BOOLEAN : NetworkFirstOpen(r, ok)
     \/ \E ok \in BOOLEAN : NetworkFirstMatch(r, ok, OfflinePage)

\* the cache.put started by a handler settles, after the handler returned;
\* nothing of the event is left then
CachePut(r, ok) ==
  /\ req[r].write = "pending"
  /\ caches' = IF ok THEN PutEntry(caches, TargetCache(req[r].class),
                                  Entry(req[r].url, req[r].net.status, req[r].net.body))
                    ELSE caches
  /\ req' = [req EXCEPT ![r] = EndedRequest]
  /\ sweepTouched' = (sweepTouched \/ (ok /\ req[r].class # "static" /\ sweepKeys # << >>))
  /\ UNCHANGED << lifeVars, actVars, sweepPc, sweepKeys, sweepSeen, sweepPending, sweepFailed >>

\* the event is over: its response settled and it started no cache write
EventEnds(r) ==
  /\ req[r].pc \in { "done", "rejected", "passthrough" }
  /\ req[r].write # "pending"
  /\ req' = [req EXCEPT ![r] = EndedRequest]
  /\ UNCHANGED << caches, lifeVars, actVars, sweepVars >>

\* the event's lifetime: the fetch listener hands the runtime the promise given
\* to respondWith and no other (it never calls event.waitUntil)
EventSettled(r) == req[r].pc \in { "passthrough", "done", "rejected", "ended" }

\* the runtime terminates the idle worker: every event is settled and no sweep
\* is running; the cache.put calls still in flight are cut off
Terminate ==
  /\ lifecycle = "activated"
  /\ \A r \in Requests : EventSettled(r) \/ req[r].pc = "idle"
  /\ \E r \in Requests : req[r].write = "pending"
  /\ sweepPc = "idle" /\ sweepPending = {}
  /\ req' = [r \in Requests |-> IF req[r].write = "pending" THEN LostRequest ELSE req[r]]
  /\ UNCHANGED << caches, lifeVars, actVars, sweepVars >>

(* ------------------------- cleanupExpiredCache ------------------------- *)
\* as SortNoop, for a comparator that puts the newest key first
SortNewestFirst(requests) == [i \in DOMAIN requests |-> requests[Len(requests) + 1 - i]]

\* requests.sort((a, b) => 0): a stable sort under a constant comparator keeps
\* the order of cache.keys(), which is the order of insertion
SortNoop(requests) == requests

\* sortedRequests.slice(0, requests.length - 100)
ToDelete(requests) ==
  IF Len(requests) > MAX_ENTRIES
  THEN SubSeq(SortNoop(requests), 1, Len(requests) - MAX_ENTRIES)
  ELSE << >>

\* the timer fires
Tick ==
  /\ lifecycle = "activated"
  /\ sweepPc = "idle" /\ sweepPending = {}
  /\ sweepPc' = "open"
  /\ sweepKeys' = << >>
  /\ sweepSeen' = << >>
  /\ sweepFailed' = FALSE
  /\ sweepTouched' = FALSE
  /\ UNCHANGED << caches, lifeVars, actVars, reqVars, sweepPending >>

\* await caches.open(DYNAMIC_CACHE)
SweepOpen(ok) ==
  /\ sweepPc = "open"
  /\ IF ok
     THEN /\ caches' = OpenCache(caches, DYNAMIC_CACHE)
          /\ sweepPc' = "keys"
     ELSE /\ sweepPc' = "idle"
          /\ UNCHANGED caches
  /\ UNCHANGED << lifeVars, actVars, reqVars, sweepKeys, sweepSeen, sweepPending, sweepFailed,
                  sweepTouched >>

\* await cache.keys(), then one cache.delete per excess key, all started at once
SweepKeys(ok) ==
  /\ sweepPc = "keys"
  /\ IF ok
     THEN /\ LET requests == KeysOf(EntriesOf(caches, DYNAMIC_CACHE))
             IN  /\ sweepKeys' = IF Len(requests) > MAX_ENTRIES THEN requests ELSE << >>
                 /\ sweepSeen' = IF Len(requests) > MAX_ENTRIES
                                 THEN EntriesOf(caches, DYNAMIC_CACHE) ELSE << >>
                 /\ sweepPending' = { ToDelete(requests)[i] : i \in DOMAIN ToDelete(requests) }
          /\ sweepPc' = IF sweepPending' = {} THEN "idle" ELSE "deleting"
     ELSE /\ sweepPc' = "idle"
          /\ UNCHANGED << sweepKeys, sweepSeen, sweepPending >>
  /\ UNCHANGED << caches, lifeVars, actVars, reqVars, sweepFailed, sweepTouched >>

\* one cache.delete settles; the first rejection ends the function in its catch
SweepDelete(k, ok) ==
  /\ k \in sweepPending
  /\ sweepPending' = sweepPending \ {k}
  /\ caches' = IF ok THEN DeleteEntry(caches, DYNAMIC_CACHE, k) ELSE caches
  /\ sweepPc' = IF ~ok \/ sweepPending' = {} THEN "idle" ELSE sweepPc
  /\ sweepFailed' = (sweepFailed \/ ~ok)
  /\ UNCHANGED << lifeVars, actVars, reqVars, sweepKeys, sweepSeen, sweepTouched >>

cleanupExpiredCache ==
  \/ \E ok \in BOOLEAN : SweepOpen(ok)
  \/ \E ok \in BOOLEAN : SweepKeys(ok)
  \/ \E k \in sweepPending, ok \in BOOLEAN : SweepDelete(k, ok)

(* --------------------------- specification ----------------------------- *)
Install ==
  \/ \E ok \in BOOLEAN : InstallOpen(ok)
  \/ \E ok \in BOOLEAN : InstallAddAll(ok)
  \/ InstallSkipWaiting

Activate ==
  \/ \E ok \in BOOLEAN : ActivateKeys(ok)
  \/ \E n \in actPending, ok \in BOOLEAN : ActivateDelete(n, ok)
  \/ ActivateClaim

Next ==
  \/ Install
  \/ \E type \in MessageTypes : Message(type)
  \/ ClientsClose
  \/ ActivateEvent
  \/ Activate
  \/ \E r \in Requests, in \in RequestInputs : FetchEvent(r, in)
  \/ \E r \in Requests : handleStaticAsset(r)
  \/ \E r \in Requests : handleEpubFile(r)
  \/ \E r \in Requests : handleDynamicRequest(r)
  \/ \E r \in Requests, ok \in BOOLEAN : CachePut(r, ok)
  \/ \E r \in Requests : EventEnds(r)
  \/ Terminate
  \/ Tick
  \/ cleanupExpiredCache

Spec == Init /\ [][Next]_vars

(* ------------------------------ claims --------------------------------- *)
Intercepted(r) == req[r].class \in { "static", "document", "other" }
Settled(r) == req[r].pc \in { "done", "rejected" }
\* the handler called fetch() and got no 2xx response: a rejection or a non-2xx status
NetworkFailed(r) == req[r].calls > 0 /\ ~Ok(req[r].net)
CurrentNames == { STATIC_CACHE, DYNAMIC_CACHE }

\* C1: the handler given to respondWith resolves to a response for every
\* intercepted GET request, whatever the network and the cache storage do;
\* it never rejects.
C1_HandlerResolves ==
  \A r \in Requests :
    Intercepted(r) =>
      /\ req[r].pc # "rejected"
      /\ req[r].pc = "done" => req[r].resp # NoResponse

C3_NetworkFirstFreshness ==
  \A r \in Requests :
    req[r].class = "document" /\ Ok(req[r].net) /\ Settled(r) =>
      /\ req[r].pc = "done" /\ req[r].resp = req[r].net
      /\ \E i \in DOMAIN EntriesOf(caches, DYNAMIC_CACHE) :
           EntriesOf(caches, DYNAMIC_CACHE)[i] =
             Entry(req[r].url, req[r].net.status, req[r].net.body)

\* C4: a document request whose fetch failed is answered with the cached entry
\* of its key when there is one and with status 404 when there is none, and
\* writes nothing to a cache.
C4_FallbackCorrectness ==
  \A r \in Requests :
    req[r].class = "document" /\ NetworkFailed(r) /\ Settled(r) =>
      /\ req[r].pc = "done"
      /\ req[r].found = "hit" => req[r].resp.type = "cached"
      /\ req[r].found = "miss" => req[r].resp = Synthetic404
      /\ req[r].write = "none"

\* C5: an "other" request whose fetch failed and whose key is in no cache is
\* answered with the offline page, status 200; and only "other" requests are
\* ever answered with the offline page.
C5_OfflinePageFallback ==
  /\ \A r \in Requests :
       req[r].class = "other" /\ NetworkFailed(r) /\ req[r].found = "miss" /\ Settled(r) =>
         req[r].pc = "done" /\ req[r].resp = OfflinePage /\ req[r].resp.status = 200
  /\ \A r \in Requests : req[r].resp.type = "offline" => req[r].class = "other"

ActivationStep == actPc' # actPc \/ actPending' # actPending

C7_InstallFailureSurfaced ==
  installFailed =>
    /\ installResult = "rejected"
    /\ lifecycle \notin { "installed", "activating", "activated" }

\* C8: once the worker has finished installing, the static cache holds an
\* entry for every URL of STATIC_ASSETS.
C8_StaticAssetsPresent ==
  lifecycle \in { "installed", "activating", "activated" } =>
    \A a \in DOMAIN STATIC_ASSETS :
      Resolve(STATIC_ASSETS[a]) \in KeySet(EntriesOf(caches, STATIC_CACHE))

SweepOver == sweepPc = "idle" /\ sweepPending = {} /\ Len(sweepKeys) > MAX_ENTRIES
MostRecent(keys) == SubSeq(keys, Len(keys) - MAX_ENTRIES + 1, Len(keys))

C10_WriteFailureSwallowed ==
  \A r \in Requests :
    Intercepted(r) /\ Ok(req[r].net) /\ Settled(r) =>
      req[r].pc = "done" /\ req[r].resp = req[r].net

\* C11: a cache write started by a fetch handler is covered by the event's
\* lifetime: while the write is in flight the event is not settled, and no
\* write is ever cut off by the termination of the worker.
C11_WriteCoveredByLifetime ==
  \A r \in Requests :
    /\ req[r].write = "pending" => ~EventSettled(r)
    /\ req[r].write # "lost"

\* a step in which one caches.delete of activation rejects: the call leaves the
\* set of calls in flight and the cache storage is as before
DeletionFails ==
  \E n \in actPending : actPending' = actPending \ {n} /\ caches' = caches

\* C12: when the deletion of one stale cache fails, the deletions of the
\* others stay in flight, the promise of the activate step is not rejected,
\* and activation does not end without the clients being claimed.
C12_ActivationBestEffort ==
  [][ DeletionFails =>
        /\ actResult' # "rejected"
        /\ lifecycle' = "activated" => claimed' ]_vars

\* C13: every entry of the static and of the dynamic cache was stored from a
\* response with a 2xx status.
C13_OnlySuccessCached ==
  \A n \in CurrentNames :
    LET es == EntriesOf(caches, n)
    IN  \A i \in DOMAIN es : Ok(es[i])

C13_Witness ==
  /\ \E i \in DOMAIN EntriesOf(caches, DYNAMIC_CACHE) :
       EntriesOf(caches, DYNAMIC_CACHE)[i].body > 0
  /\ Len(EntriesOf(caches, STATIC_CACHE)) >= Len(STATIC_ASSETS)

\* the request of event r is one the listener must not intercept
Excluded(r) ==
  /\ req[r].method # ""
  /\ \/ req[r].method # "GET"
     \/ req[r].url \in { ExtensionUrl, DevtoolsUrl }

\* C14: a request whose method is not GET, whose scheme is chrome-extension:
\* or whose host is the devtools host is passed through: the worker gives no
\* response for it, calls the network zero times, and neither looks up nor
\* opens nor writes a cache.
C14_Passthrough ==
  \A r \in Requests :
    Excluded(r) =>
      /\ req[r].pc = "passthrough"
      /\ req[r].resp = NoResponse /\ req[r].net = NoResponse
      /\ req[r].calls = 0 /\ req[r].lookups = 0
      /\ req[r].write = "none" /\ req[r].fail = "none"

C14_Witness ==
  \E r \in Requests :
    /\ req[r].method = "GET" /\ req[r].url = DevtoolsUrl
    /\ req[r].pc = "passthrough" /\ req[r].resp = NoResponse

\* C15: every intercepted request whose URL ends in .epub or contains it is
\* dispatched to the document strategy, whatever else the URL matches.
C15_DocumentClassification ==
  \A r \in Requests :
    Intercepted(r) /\ Includes(req[r].url, ".epub") => req[r].class = "document"

\* the handler of event r has finished after a cache lookup that found nothing
MissedAndDone(r) ==
  /\ req[r].class = "static" /\ req[r].pc = "done"
  /\ req[r].found = "miss" /\ req[r].fail # "match"

\* C16: a static request with no cache entry whose fetch returned 2xx is
\* answered with the network response and a copy is written to the static
\* cache, never to the dynamic one; when the fetch did not return 2xx it is
\* answered with the synthetic 503 and nothing is written.
C16_CacheFirstMiss ==
  \A r \in Requests :
    MissedAndDone(r) =>
      /\ req[r].calls = 1
      /\ Ok(req[r].net) =>
           /\ req[r].resp = req[r].net
           /\ req[r].write = "pending" /\ TargetCache(req[r].class) = STATIC_CACHE
           /\ req[r].url \notin KeySet(EntriesOf(caches, DYNAMIC_CACHE))
      /\ ~Ok(req[r].net) =>
           /\ req[r].resp = Synthetic503
           /\ req[r].write = "none"

\* a message reaches the waiting worker
MessageStep == lifecycle = "installed" /\ lifecycle' = "installed" /\ lastMsg' # lastMsg

\* C17: a message of type SKIP_WAITING invokes skipWaiting, after which the
\* waiting worker can be activated whether or not an older worker still has
\* clients; a message of another type or without data changes neither the
\* skip-waiting request nor the lifecycle state nor any cache.
C17_ControlMessage ==
  /\ [](lifecycle = "installed" /\ skipWaitingFlag => ENABLED ActivateEvent)
  /\ [][ MessageStep =>
           /\ lifecycle' = lifecycle /\ caches' = caches
           /\ IF lastMsg' = "SKIP_WAITING" THEN skipWaitingFlag'
              ELSE skipWaitingFlag' = skipWaitingFlag ]_vars

C17_Witness ==
  /\ lifecycle = "installed" /\ oldWorker
  /\ lastMsg = "SKIP_WAITING" /\ skipWaitingFlag
  /\ installFailed

\* C18: the clients are claimed only after the deletion of every stale cache
\* has finished: whenever this activation has claimed the clients, no deletion
\* is in flight and no cache of a stale name exists.
C18_ClaimAfterCleanup ==
  claimed =>
    /\ actPending = {}
    /\ StaleNames(CacheNames(caches)) = {}

C18_Witness ==
  /\ claimed
  /\ StaleNames(actStart) = { OldStatic, Leftover }
  /\ HasCache(caches, STATIC_CACHE) /\ HasCache(caches, DYNAMIC_CACHE)

\* C19: a document or "other" request calls the network exactly once and
\* before any cache lookup; the cache is looked up only after that call
\* rejected or returned a non-2xx status, and not at all when it returned 2xx.
C19_NetworkFirstOrdering ==
  \A r \in Requests :
    req[r].class \in { "document", "other" } =>
      /\ req[r].calls <= 1
      /\ Settled(r) => req[r].calls = 1
      /\ req[r].pc = "match" \/ req[r].lookups > 0 =>
           req[r].calls = 1 /\ ~Ok(req[r].net)

\* a step of cleanupExpiredCache
SweepStep == sweepPc' # sweepPc \/ sweepPending' # sweepPending
EntrySet(es) == { es[i] : i \in DOMAIN es }

\* C20: a sweep deletes only entries the dynamic cache held when the sweep
\* read its key list, so an entry a handler stores after that read, also one
\* for a key on the list, outlives the sweep; and no step of a sweep changes
\* the static cache.
C20_SweepIsolation ==
  [][ SweepStep =>
        /\ EntriesOf(caches', STATIC_CACHE) = EntriesOf(caches, STATIC_CACHE)
        /\ HasCache(caches', STATIC_CACHE) = HasCache(caches, STATIC_CACHE)
        /\ EntrySet(EntriesOf(caches, DYNAMIC_CACHE))
             \ EntrySet(EntriesOf(caches', DYNAMIC_CACHE)) \subseteq EntrySet(sweepSeen) ]_vars

====
